---- MODULE Spec2Model ----
(***************************************************************************)
(* A model of the blossom crate: the packed BitArray (src/bit_array.rs)    *)
(* and the BloomFilter built on it (src/lib.rs).                           *)
(*                                                                         *)
(* The digest-to-index mapping of the crate runs on u64, usize and f64     *)
(* values, which do not fit TLC's 32-bit integers.  Unsigned integers of   *)
(* the program are therefore held as little-endian limb sequences (no      *)
(* leading zero limb), and a non-negative finite float as a pair           *)
(* [m |-> limbs, e |-> exponent] standing for m * 2^e, rounded to the      *)
(* format's precision (round to nearest, ties to even) after every         *)
(* operation exactly as IEEE 754 does.                                     *)
(***************************************************************************)
EXTENDS Integers, Sequences, FiniteSets, TLC

(***************************************************************************)
(* Bounds of the model.                                                    *)
(***************************************************************************)
\* largest size (in bits) handed to BitArray::new / BloomFilter::new
MaxSize == 9
\* largest num_hash_functions handed to BloomFilter::new
MaxK == 2
\* largest max_insertions handed to with_false_positive_bound
MaxInsertions == 2
\* a stand-alone BitArray is written to while fewer than this many bits are set
MaxSets == 2

(***************************************************************************)
(* Machine parameters.                                                     *)
(***************************************************************************)
\* width of u64 and (on the 64-bit targets modelled) of usize
U64Bits == 64
\* precision (significand bits, hidden bit included) of f64 and f32
F64Precision == 53
F32Precision == 24

(***************************************************************************)
(* Unsigned integers as little-endian sequences of limbs; a limb holds     *)
(* LimbBits bits, so that the product of two limbs fits a TLC integer.     *)
(***************************************************************************)
LimbBits == (31 - 1) \div 2
Base == 2^LimbBits

Max(a, b) == IF a >= b THEN a ELSE b
Min(a, b) == IF a <= b THEN a ELSE b

Limb(x, k) == IF 1 <= k /\ k <= Len(x) THEN x[k] ELSE 0

Norm(x) ==
    LET top == {k \in 1..Len(x) : x[k] # 0}
    IN  IF top = {} THEN << >>
        ELSE SubSeq(x, 1, CHOOSE k \in top : \A j \in top : j <= k)

\* a TLC integer as limbs, and back (for values below Base^2)
NatToBits(n) == Norm(<<n % Base, (n \div Base) % Base, n \div (Base * Base)>>)
IsSmall(x) == Len(x) <= 2
BitsToNat(x) == Limb(x, 1) + Base * Limb(x, 2)

\* number of significant bits of a limb and of a number
LimbLen(v) == IF v = 0 THEN 0 ELSE CHOOSE n \in 1..LimbBits : 2^(n - 1) <= v /\ v < 2^n
BitLen(x) == IF x = << >> THEN 0 ELSE LimbBits * (Len(x) - 1) + LimbLen(x[Len(x)])

\* bit j (from 0) of x
BitAt(x, j) == (Limb(x, j \div LimbBits + 1) \div 2^(j % LimbBits)) % 2

\* some bit below bit n of x is set
AnyBitBelow(x, n) ==
    \/ \E k \in 1..Min(Len(x), n \div LimbBits) : x[k] # 0
    \/ Limb(x, n \div LimbBits + 1) % 2^(n % LimbBits) # 0

\* x * 2^n and floor(x / 2^n)
ShiftLeft(x, n) ==
    LET q == n \div LimbBits
        r == n % LimbBits
    IN  Norm([k \in 1..(Len(x) + q + 1) |->
                 (Limb(x, k - q) % 2^(LimbBits - r)) * 2^r
                   + Limb(x, k - q - 1) \div 2^(LimbBits - r)])

ShiftRight(x, n) ==
    LET q == n \div LimbBits
        r == n % LimbBits
    IN  Norm([k \in 1..Max(Len(x) - q, 0) |->
                 Limb(x, k + q) \div 2^r + (Limb(x, k + q + 1) % 2^r) * 2^(LimbBits - r)])

\* x mod 2^n
LowBits(x, n) ==
    Norm([k \in 1..Min(Len(x), n \div LimbBits + 1) |->
             IF k <= n \div LimbBits THEN x[k] ELSE x[k] % 2^(n % LimbBits)])

Ones(n) == LowBits([k \in 1..(n \div LimbBits + 1) |-> Base - 1], n)

RECURSIVE AddCarry(_, _, _, _)
AddCarry(a, b, k, c) ==
    IF k > Len(a) /\ k > Len(b)
    THEN IF c = 0 THEN << >> ELSE <<c>>
    ELSE LET t == Limb(a, k) + Limb(b, k) + c
         IN  <<t % Base>> \o AddCarry(a, b, k + 1, t \div Base)

AddBits(a, b) == AddCarry(a, b, 1, 0)

\* a times one limb
RECURSIVE MulLimb(_, _, _, _)
MulLimb(a, v, k, c) ==
    IF k > Len(a)
    THEN IF c = 0 THEN << >> ELSE <<c>>
    ELSE LET t == a[k] * v + c
         IN  <<t % Base>> \o MulLimb(a, v, k + 1, t \div Base)

\* schoolbook multiplication, one step per limb of b
RECURSIVE MulFrom(_, _, _)
MulFrom(a, b, k) ==
    IF k > Len(b) THEN << >>
    ELSE AddBits(ShiftLeft(MulLimb(a, b[k], 1, 0), LimbBits * (k - 1)), MulFrom(a, b, k + 1))

MulBits(a, b) == Norm(MulFrom(a, b, 1))

\* a < b
LessBits(a, b) ==
    IF Len(a) # Len(b) THEN Len(a) < Len(b)
    ELSE LET diff == {k \in 1..Len(a) : a[k] # b[k]}
         IN  IF diff = {} THEN FALSE
             ELSE LET k == CHOOSE i \in diff : \A j \in diff : j <= i
                  IN  a[k] < b[k]

U64MAX == Ones(U64Bits)
USIZE_MAX == Ones(U64Bits)

\* a u64 written as four 16-bit words, most significant first
U64(w3, w2, w1, w0) ==
    AddBits(AddBits(NatToBits(w0), ShiftLeft(NatToBits(w1), 16)),
            AddBits(ShiftLeft(NatToBits(w2), 32), ShiftLeft(NatToBits(w3), 48)))

(***************************************************************************)
(* Non-negative finite floats: [m, e] stands for m * 2^e, with m of at     *)
(* most `prec` significant bits (or the power of two just above them).     *)
(***************************************************************************)
\* m * 2^e rounded to prec significant bits, round-half-to-even
RoundToPrecision(m, e, prec) ==
    IF BitLen(m) <= prec THEN [m |-> m, e |-> e]
    ELSE LET drop == BitLen(m) - prec
             q == ShiftRight(m, drop)
             guard == BitAt(m, drop - 1)
             sticky == AnyBitBelow(m, drop - 1)
             up == guard = 1 /\ (sticky \/ BitAt(q, 0) = 1)
         IN  [m |-> IF up THEN AddBits(q, <<1>>) ELSE q, e |-> e + drop]

\* `x as f64` / `x as f32` of an unsigned integer
AsF64(x) == RoundToPrecision(x, 0, F64Precision)
AsF32(x) == RoundToPrecision(x, 0, F32Precision)

FMul(x, y, prec) == RoundToPrecision(MulBits(x.m, y.m), x.e + y.e, prec)

\* x / y for y a power of two, which is all this crate divides by
\* (u64::MAX as f64 is 2^64): the quotient is exact, only the exponent moves.
FDiv(x, y) ==
    CASE y.m = ShiftLeft(<<1>>, BitLen(y.m) - 1) ->
        [m |-> x.m, e |-> x.e - (y.e + BitLen(y.m) - 1)]

\* f > g
FGreater(f, g) ==
    LET lo == Min(f.e, g.e)
    IN  LessBits(ShiftLeft(g.m, g.e - lo), ShiftLeft(f.m, f.e - lo))

\* f.ceil(): the least integer-valued float >= f
FCeil(f) ==
    IF f.e >= 0 THEN f
    ELSE LET whole == ShiftRight(f.m, 0 - f.e)
         IN  [m |-> IF AnyBitBelow(f.m, 0 - f.e) THEN AddBits(whole, <<1>>) ELSE whole,
              e |-> 0]

\* `f as usize`: truncation toward zero, saturating at usize::MAX
AsUsize(f) ==
    IF f.e >= 0
    THEN LET v == ShiftLeft(f.m, f.e)
         IN  IF BitLen(v) > U64Bits THEN USIZE_MAX ELSE v
    ELSE ShiftRight(f.m, 0 - f.e)

(***************************************************************************)
(* u8 arithmetic of set_bit / get_bit.                                     *)
(***************************************************************************)
TWO_TO_THE_SEVENTH == 128

BitOf(x, j) == (x \div 2^j) % 2

RECURSIVE Or8From(_, _, _)
Or8From(a, b, j) ==
    IF j = 8 THEN 0
    ELSE (IF BitOf(a, j) = 1 \/ BitOf(b, j) = 1 THEN 2^j ELSE 0) + Or8From(a, b, j + 1)

RECURSIVE And8From(_, _, _)
And8From(a, b, j) ==
    IF j = 8 THEN 0
    ELSE (IF BitOf(a, j) = 1 /\ BitOf(b, j) = 1 THEN 2^j ELSE 0) + And8From(a, b, j + 1)

\* a | b, a & b, a >> n on u8
Or8(a, b) == Or8From(a, b, 0)
And8(a, b) == And8From(a, b, 0)
Shr8(a, n) == a \div 2^n

\* i / 8 and i % 8 on a usize
UDiv8(i) == ShiftRight(i, 3)
UMod8(i) == BitsToNat(LowBits(i, 3))

(***************************************************************************)
(* BitArray (src/bit_array.rs).  A BitArray is [array, size_in_bits];      *)
(* array is the Vec<u8>, 1-indexed here.  An operation that can panic      *)
(* returns [panic |-> TRUE] or [panic |-> FALSE, ...].                     *)
(***************************************************************************)
Panic == [panic |-> TRUE]

\* variant: the byte count is rounded down
BitArray_new_floor(size) ==
    [array |-> [j \in 1..(size \div 8) |-> 0], size_in_bits |-> size]

\* variant: one byte more than size / 8 is always allocated
BitArray_new_extra_byte(size) ==
    [array |-> [j \in 1..(size \div 8 + 1) |-> 0], size_in_bits |-> size]

BitArray_new(size) ==
    LET size_in_bytes == IF size % 8 = 0
                         THEN size \div 8
                         ELSE (size + 8 - (size % 8)) \div 8
    IN  [array |-> [j \in 1..size_in_bytes |-> 0], size_in_bits |-> size]

\* self.array[i / 8] is bounds-checked by Vec
InBounds(ba, byte) == IsSmall(byte) /\ BitsToNat(byte) < Len(ba.array)

\* variant: the byte is assigned the mask instead of being OR-ed with it
set_bit_overwrite(ba, i) ==
    IF ~InBounds(ba, UDiv8(i)) THEN Panic
    ELSE [panic |-> FALSE,
          ba |-> [ba EXCEPT !.array[BitsToNat(UDiv8(i)) + 1] =
                     Shr8(TWO_TO_THE_SEVENTH, UMod8(i))]]

\* variant: bits are numbered from the least significant bit of the byte
set_bit_lsb_first(ba, i) ==
    IF ~InBounds(ba, UDiv8(i)) THEN Panic
    ELSE [panic |-> FALSE,
          ba |-> [ba EXCEPT !.array[BitsToNat(UDiv8(i)) + 1] = Or8(@, 2^UMod8(i))]]

set_bit(ba, i) ==
    IF ~InBounds(ba, UDiv8(i)) THEN Panic
    ELSE LET pos == BitsToNat(UDiv8(i)) + 1
         IN  [panic |-> FALSE,
              ba |-> [ba EXCEPT !.array[pos] =
                         Or8(ba.array[pos], Shr8(TWO_TO_THE_SEVENTH, UMod8(i)))]]

get_bit(ba, i) ==
    IF ~InBounds(ba, UDiv8(i)) THEN Panic
    ELSE LET pos == BitsToNat(UDiv8(i)) + 1
         IN  [panic |-> FALSE,
              value |-> And8(ba.array[pos], Shr8(TWO_TO_THE_SEVENTH, UMod8(i))) # 0]

\* self.size_in_bits - 1 on usize: with overflow checks (debug builds) the
\* subtraction panics at 0, without them (release builds) it wraps.
SizeMinusOne(ba, checks) ==
    IF ba.size_in_bits >= 1 THEN [panic |-> FALSE, value |-> NatToBits(ba.size_in_bits - 1)]
    ELSE IF checks THEN Panic
    ELSE [panic |-> FALSE, value |-> USIZE_MAX]

\* u64::MAX as f64
U64MAX_AS_F64 == AsF64(U64MAX)

\* variant: the digest is scaled onto [0, size_in_bits] instead of [0, size_in_bits - 1]
bit_index_from_u64_full_size(ba, i, checks) ==
    [panic |-> FALSE,
     value |-> AsUsize(FMul(FDiv(AsF64(i), U64MAX_AS_F64),
                            AsF64(NatToBits(ba.size_in_bits)), F64Precision))]

bit_index_from_u64(ba, i, checks) ==
    LET last == SizeMinusOne(ba, checks)
    IN  IF last.panic THEN Panic
        ELSE [panic |-> FALSE,
              value |-> AsUsize(FMul(FDiv(AsF64(i), U64MAX_AS_F64),
                                     AsF64(last.value), F64Precision))]

set_bit_from_u64(ba, i, checks) ==
    LET index == bit_index_from_u64(ba, i, checks)
    IN  IF index.panic THEN Panic ELSE set_bit(ba, index.value)

get_bit_from_u64(ba, i, checks) ==
    LET index == bit_index_from_u64(ba, i, checks)
    IN  IF index.panic THEN Panic ELSE get_bit(ba, index.value)

(***************************************************************************)
(* BloomFilter (src/lib.rs).                                               *)
(***************************************************************************)
\* the values hashed: the i32 literals of the crate's own tests
Values == {12, 13, 14}

\* DefaultHasher::new() is SipHash-1-3 under the fixed key (0, 0); a round
\* feeds it the 8 little-endian bytes of the usize round index and then the
\* 4 bytes of the i32 value.  The table holds finish() for rounds 0..7.
DefaultHasher12 ==
    << U64(26394, 14819, 21582, 19013), U64(2878, 33505, 10735, 44683),
       U64(64117, 7781, 29053, 23700), U64(26875, 8465, 59032, 59950),
       U64(46491, 55695, 24328, 48339), U64(16268, 58007, 26816, 42094),
       U64(58180, 38139, 53405, 50104), U64(54040, 13263, 19628, 17143) >>
DefaultHasher13 ==
    << U64(50382, 954, 52765, 38669), U64(7919, 45250, 44658, 12423),
       U64(24449, 60789, 7807, 61999), U64(47939, 58818, 16725, 64158),
       U64(45135, 8044, 38342, 35257), U64(11172, 33160, 7205, 58093),
       U64(52864, 33483, 34315, 6635), U64(22929, 57447, 2532, 8476) >>
DefaultHasher14 ==
    << U64(53733, 24243, 12708, 8653), U64(10278, 37854, 52420, 35723),
       U64(12639, 18994, 10251, 14412), U64(30591, 2438, 59841, 24876),
       U64(25348, 26069, 23082, 20555), U64(2293, 30506, 46047, 33327),
       U64(19564, 24531, 19087, 49184), U64(45450, 43819, 2697, 35185) >>

\* i.hash(&mut hasher); value.hash(&mut hasher); hasher.finish()
Hasher(i, value) ==
    CASE value = 12 -> DefaultHasher12[i + 1]
      [] value = 13 -> DefaultHasher13[i + 1]
      [] value = 14 -> DefaultHasher14[i + 1]

BloomFilter_new(size, k) ==
    [bit_array |-> BitArray_new(size), num_hash_functions |-> k]

\* the false positive probabilities tried, all inside (0, 1)
Probabilities == {"0.75", "0.5", "0.25", "0.01"}

F32(mantissa, exponent) == [m |-> NatToBits(mantissa), e |-> exponent]

\* -false_positive_probability.ln() / 2f32.ln().powf(2.0) as the f32 it yields
Multiplier(p) ==
    CASE p = "0.75" -> F32(10045737, -24)
      [] p = "0.5"  -> F32(12102203, -23)
      [] p = "0.25" -> F32(12102203, -22)
      [] p = "0.01" -> F32(5025331, -19)

\* -false_positive_probability.log2() as the f32 it yields
NegLog2(p) ==
    CASE p = "0.75" -> F32(3481587, -23)
      [] p = "0.5"  -> F32(1, 0)
      [] p = "0.25" -> F32(1, 1)
      [] p = "0.01" -> F32(1741647, -18)

\* variant: the size is truncated instead of rounded up
with_false_positive_bound_floor_size(p, max_insertions) ==
    LET size == FMul(AsF32(NatToBits(max_insertions)), Multiplier(p), F32Precision)
    IN  [panic |-> FALSE,
         bf |-> BloomFilter_new(BitsToNat(AsUsize(size)),
                                BitsToNat(AsUsize(FCeil(NegLog2(p)))))]

\* variant: the number of hash functions is truncated instead of rounded up
with_false_positive_bound_floor_k(p, max_insertions) ==
    LET size == FCeil(FMul(AsF32(NatToBits(max_insertions)), Multiplier(p), F32Precision))
    IN  [panic |-> FALSE,
         bf |-> BloomFilter_new(BitsToNat(AsUsize(size)), BitsToNat(AsUsize(NegLog2(p))))]

with_false_positive_bound(p, max_insertions) ==
    LET multiplier == Multiplier(p)
        size == FCeil(FMul(AsF32(NatToBits(max_insertions)), multiplier, F32Precision))
        num_hash_functions == AsUsize(FCeil(NegLog2(p)))
    IN  IF FGreater(size, AsF32(USIZE_MAX)) THEN Panic
        ELSE [panic |-> FALSE,
              bf |-> BloomFilter_new(BitsToNat(AsUsize(size)), BitsToNat(num_hash_functions))]

RECURSIVE insert_from(_, _, _, _, _)
insert_from(ba, k, value, i, checks) ==
    IF i >= k THEN [panic |-> FALSE, ba |-> ba]
    ELSE LET r == set_bit_from_u64(ba, Hasher(i, value), checks)
         IN  IF r.panic THEN Panic ELSE insert_from(r.ba, k, value, i + 1, checks)

\* variant: the last round is left out
insert_skip_last(bf, value, checks) ==
    insert_from(bf.bit_array, Max(bf.num_hash_functions, 1) - 1, value, 0, checks)

insert(bf, value, checks) ==
    insert_from(bf.bit_array, bf.num_hash_functions, value, 0, checks)

RECURSIVE maybe_contains_from(_, _, _, _, _)
maybe_contains_from(ba, k, value, i, checks) ==
    IF i >= k THEN [panic |-> FALSE, value |-> TRUE]
    ELSE LET r == get_bit_from_u64(ba, Hasher(i, value), checks)
         IN  IF r.panic THEN Panic
             ELSE IF ~r.value THEN [panic |-> FALSE, value |-> FALSE]
             ELSE maybe_contains_from(ba, k, value, i + 1, checks)

\* variant: only round 0 is looked at
maybe_contains_first_round(bf, value, checks) ==
    maybe_contains_from(bf.bit_array, Min(bf.num_hash_functions, 1), value, 0, checks)

maybe_contains(bf, value, checks) ==
    maybe_contains_from(bf.bit_array, bf.num_hash_functions, value, 0, checks)

(***************************************************************************)
(* State.                                                                  *)
(***************************************************************************)
VARIABLES
    phase,               \* "start" (nothing built), "live", "panicked"
    overflow_checks,     \* the build: TRUE with integer overflow checks on
    array,               \* BitArray.array
    size_in_bits,        \* BitArray.size_in_bits
    num_hash_functions,  \* BloomFilter.num_hash_functions
    built,               \* the constructor call that built the object
    inserted,            \* the values whose insert has returned
    last                 \* the last call recorded on the object and its result

vars == <<phase, overflow_checks, array, size_in_bits, num_hash_functions,
          built, inserted, last>>

self_bit_array == [array |-> array, size_in_bits |-> size_in_bits]
self == [bit_array |-> self_bit_array, num_hash_functions |-> num_hash_functions]

NoCall == [op |-> "none"]

Init ==
    /\ phase = "start"
    /\ overflow_checks \in BOOLEAN
    /\ array = << >>
    /\ size_in_bits = 0
    /\ num_hash_functions = 0
    /\ built = NoCall
    /\ inserted = {}
    /\ last = NoCall

(***************************************************************************)
(* The BloomFilter's operations.                                           *)
(***************************************************************************)
New(size, k) ==
    /\ phase = "start"
    /\ LET bf == BloomFilter_new(size, k)
       IN  /\ array' = bf.bit_array.array
           /\ size_in_bits' = bf.bit_array.size_in_bits
           /\ num_hash_functions' = bf.num_hash_functions
    /\ phase' = "live"
    /\ built' = [op |-> "new", size |-> size, k |-> k]
    /\ UNCHANGED <<overflow_checks, inserted, last>>

WithFalsePositiveBound(p, n) ==
    /\ phase = "start"
    /\ LET r == with_false_positive_bound(p, n)
       IN  IF r.panic
           THEN /\ phase' = "panicked"
                /\ UNCHANGED <<array, size_in_bits, num_hash_functions>>
           ELSE /\ phase' = "live"
                /\ array' = r.bf.bit_array.array
                /\ size_in_bits' = r.bf.bit_array.size_in_bits
                /\ num_hash_functions' = r.bf.num_hash_functions
    /\ built' = [op |-> "with_false_positive_bound", p |-> p, n |-> n]
    /\ UNCHANGED <<overflow_checks, inserted, last>>

Insert(v) ==
    /\ phase = "live"
    /\ LET r == insert(self, v, overflow_checks)
       IN  IF r.panic
           THEN /\ phase' = "panicked"
                /\ UNCHANGED <<array, inserted>>
           ELSE /\ phase' = "live"
                /\ array' = r.ba.array
                /\ inserted' = inserted \cup {v}
    /\ last' = [op |-> "insert", arg |-> v]
    /\ UNCHANGED <<overflow_checks, size_in_bits, num_hash_functions, built>>

MaybeContains(v) ==
    /\ phase = "live"
    /\ LET r == maybe_contains(self, v, overflow_checks)
       IN  IF r.panic
           THEN /\ phase' = "panicked"
                /\ last' = [op |-> "maybe_contains", arg |-> v]
           ELSE /\ phase' = "live"
                /\ last' = [op |-> "maybe_contains", arg |-> v, ret |-> r.value]
    /\ UNCHANGED <<overflow_checks, array, size_in_bits, num_hash_functions,
                   built, inserted>>

Next ==
    \/ \E size \in 0..MaxSize, k \in 0..MaxK : New(size, k)
    \/ \E p \in Probabilities, n \in 0..MaxInsertions : WithFalsePositiveBound(p, n)
    \/ \E v \in Values : Insert(v)
    \/ \E v \in Values : MaybeContains(v)

Spec == Init /\ [][Next]_vars

(***************************************************************************)
(* A stand-alone BitArray, driven as the unit tests of bit_array.rs drive  *)
(* it: direct index access and digest-derived access.                      *)
(***************************************************************************)
\* digests handed to set_bit_from_u64 / get_bit_from_u64: the two ends of the
\* range, u64::MAX / 2 (the tests' value), 2^64 - 2^10 (the least u64 that
\* `as f64` rounds up to 2^64), 2^64 - 2^11 (the largest f64 below 2^64) and a
\* SipHash output
Digests ==
    { << >>, U64MAX, Ones(U64Bits - 1),
      U64(65535, 65535, 65535, 64512), U64(65535, 65535, 65535, 63488),
      Hasher(0, 13) }

\* number of bits set in the array
RECURSIVE PopCount(_)
PopCount(bytes) ==
    IF bytes = << >> THEN 0
    ELSE Cardinality({j \in 0..7 : BitOf(Head(bytes), j) = 1}) + PopCount(Tail(bytes))

BA_New(size) ==
    /\ phase = "start"
    /\ LET ba == BitArray_new(size)
       IN  /\ array' = ba.array
           /\ size_in_bits' = ba.size_in_bits
    /\ phase' = "live"
    /\ built' = [op |-> "BitArray::new", size |-> size]
    /\ UNCHANGED <<overflow_checks, num_hash_functions, inserted, last>>

BA_SetBit(i) ==
    /\ phase = "live"
    /\ PopCount(array) < MaxSets
    /\ LET r == set_bit(self_bit_array, NatToBits(i))
       IN  IF r.panic
           THEN phase' = "panicked" /\ UNCHANGED array
           ELSE phase' = "live" /\ array' = r.ba.array
    /\ last' = [op |-> "set_bit", arg |-> i]
    /\ UNCHANGED <<overflow_checks, size_in_bits, num_hash_functions, built, inserted>>

\* the reads leave the object as it is; only a panic shows in the state
BA_GetBit(i) ==
    /\ phase = "live"
    /\ phase' = IF get_bit(self_bit_array, NatToBits(i)).panic THEN "panicked" ELSE "live"
    /\ UNCHANGED <<overflow_checks, array, size_in_bits, num_hash_functions,
                   built, inserted, last>>

BA_SetBitFromU64(d) ==
    /\ phase = "live"
    /\ PopCount(array) < MaxSets
    /\ LET r == set_bit_from_u64(self_bit_array, d, overflow_checks)
       IN  IF r.panic
           THEN phase' = "panicked" /\ UNCHANGED array
           ELSE phase' = "live" /\ array' = r.ba.array
    /\ last' = [op |-> "set_bit_from_u64", arg |-> d]
    /\ UNCHANGED <<overflow_checks, size_in_bits, num_hash_functions, built, inserted>>

BA_GetBitFromU64(d) ==
    /\ phase = "live"
    /\ phase' = IF get_bit_from_u64(self_bit_array, d, overflow_checks).panic
                THEN "panicked" ELSE "live"
    /\ UNCHANGED <<overflow_checks, array, size_in_bits, num_hash_functions,
                   built, inserted, last>>

\* direct indices tried: every bit of the allocated bytes and the one past them
DirectIndices == 0..(8 * Len(array))

NextBitArray ==
    \/ \E size \in 0..MaxSize : BA_New(size)
    \/ \E i \in DirectIndices : BA_SetBit(i)
    \/ \E i \in DirectIndices : BA_GetBit(i)
    \/ \E d \in Digests : BA_SetBitFromU64(d)
    \/ \E d \in Digests : BA_GetBitFromU64(d)

SpecBitArray == Init /\ [][NextBitArray]_vars

(***************************************************************************)
(* Properties.                                                             *)
(***************************************************************************)
\* bit j of the packed bytes, by the numbering the documentation states:
\* byte j / 8, position 7 - (j % 8) counted from the least significant bit
BitIsSet(bytes, j) ==
    /\ j \div 8 + 1 <= Len(bytes)
    /\ (bytes[j \div 8 + 1] \div 2^(7 - (j % 8))) % 2 = 1

\* the bit index the current bit array gives digest d
IndexOf(d) == BitsToNat(bit_index_from_u64(self_bit_array, d, overflow_checks).value)

\* maybe_contains(v) returns true on the filter with these bytes
QueryTrueOn(bytes, v) ==
    LET r == maybe_contains([bit_array |-> [array |-> bytes, size_in_bits |-> size_in_bits],
                             num_hash_functions |-> num_hash_functions],
                            v, overflow_checks)
    IN  ~r.panic /\ r.value

\* maybe_contains(v) on the current filter returns true
QueryTrue(v) == QueryTrueOn(array, v)

\* the stand-alone BitArray with these bytes
BitArrayOn(bytes) == [array |-> bytes, size_in_bits |-> size_in_bits]

\* C1: no false negatives. On a filter of size >= 1 (any k), every value whose
\* insert has returned is reported by maybe_contains, and a maybe_contains that
\* returned false was given a value never inserted.
C1_NoFalseNegatives ==
    (phase = "live" /\ size_in_bits >= 1) =>
        /\ \A v \in inserted : QueryTrue(v)
        /\ (last.op = "maybe_contains" /\ ~last.ret) => last.arg \notin inserted

C1_Witness ==
    /\ phase = "live" /\ size_in_bits >= 1 /\ num_hash_functions >= 2
    /\ Cardinality(inserted) >= 2
    /\ last.op = "maybe_contains" /\ last.arg \in inserted /\ last.ret
    /\ \E v \in Values \ inserted : ~QueryTrue(v)

\* C2: monotonicity. No step of a live filter clears a bit of the array, and a
\* value maybe_contains reports stays reported after every further step.
C2_Monotonic ==
    [][(phase = "live" /\ phase' = "live") =>
          /\ Len(array') = Len(array)
          /\ \A j \in 0..(8 * Len(array) - 1) : BitIsSet(array, j) => BitIsSet(array', j)
          /\ array' # array => \A v \in Values : QueryTrue(v) => QueryTrueOn(array', v)]_vars

C2_Witness ==
    /\ phase = "live" /\ last.op = "insert" /\ Cardinality(inserted) >= 2
    /\ num_hash_functions >= 2
    /\ \E j \in 0..7, k \in 0..7 : j # k /\ BitIsSet(array, j) /\ BitIsSet(array, k)
    /\ \A v \in inserted : QueryTrue(v)

\* C3: boundary-exact mapping. On every BitArray of capacity >= 1 digest 0 maps
\* to index 0 and digest u64::MAX to index capacity - 1, and set_bit_from_u64
\* of these digests sets exactly those bits.
C3_BoundaryExact ==
    (phase = "live" /\ size_in_bits >= 1) =>
        /\ bit_index_from_u64(self_bit_array, << >>, overflow_checks)
             = [panic |-> FALSE, value |-> << >>]
        /\ bit_index_from_u64(self_bit_array, U64MAX, overflow_checks)
             = [panic |-> FALSE, value |-> NatToBits(size_in_bits - 1)]
        /\ (last.op = "set_bit_from_u64" /\ last.arg = << >>) => BitIsSet(array, 0)
        /\ (last.op = "set_bit_from_u64" /\ last.arg = U64MAX) =>
               BitIsSet(array, size_in_bits - 1)

C3_Witness ==
    /\ phase = "live" /\ size_in_bits > 8 /\ size_in_bits % 8 # 0
    /\ last.op = "set_bit_from_u64" /\ last.arg = U64MAX
    /\ BitIsSet(array, 0) /\ BitIsSet(array, size_in_bits - 1)
    /\ PopCount(array) = 2

\* C4: maybe_contains(v) returns true exactly when, for every round i below
\* num_hash_functions, the bit at the index mapped from the digest of (i, v) is
\* set; with num_hash_functions = 0 it therefore returns true.
C4_QueryIsConjunction ==
    (phase = "live" /\ last.op = "maybe_contains") =>
        last.ret = (\A i \in 0..(num_hash_functions - 1) :
                       BitIsSet(array, IndexOf(Hasher(i, last.arg))))

C4_Witness ==
    /\ phase = "live" /\ last.op = "maybe_contains" /\ ~last.ret
    /\ num_hash_functions >= 2
    /\ BitIsSet(array, IndexOf(Hasher(0, last.arg)))

\* C6: byte packing. A set_bit(i) that returns ORs byte i / 8 with 0x80 >> (i % 8)
\* and leaves every other byte and bit as it was; afterwards get_bit(i) is true,
\* get_bit(j) for j # i is what it was, and a second set_bit(i) changes nothing.
C6_BytePacking ==
    [][(/\ phase = "live" /\ phase' = "live" /\ last'.op = "set_bit"
        /\ (array' # array \/ last' # last)) =>
          LET i == last'.arg
              mask == 2^(7 - (i % 8))
          IN  /\ i < 8 * Len(array)
              /\ Len(array') = Len(array)
              /\ \A k \in 1..Len(array) :
                    array'[k] = IF k # i \div 8 + 1 \/ (array[k] \div mask) % 2 = 1
                                THEN array[k]
                                ELSE array[k] + mask
              /\ get_bit(BitArrayOn(array'), NatToBits(i)) = [panic |-> FALSE, value |-> TRUE]
              /\ \A j \in (0..(8 * Len(array) - 1)) \ {i} :
                    get_bit(BitArrayOn(array'), NatToBits(j)) = get_bit(BitArrayOn(array), NatToBits(j))
              /\ set_bit(BitArrayOn(array'), NatToBits(i))
                    = [panic |-> FALSE, ba |-> BitArrayOn(array')]]_vars

C6_Witness ==
    /\ phase = "live" /\ last.op = "set_bit" /\ last.arg = 1
    /\ Len(array) = 2 /\ array[1] = 192 /\ array[2] = 0

\* the capacity the documentation's formula gives: the least integer not below
\* max_insertions times the multiplier of p, in exact arithmetic
ExactSize(p, n) ==
    LET scale == 2^(0 - Multiplier(p).e)
    IN  (n * BitsToNat(Multiplier(p).m) + scale - 1) \div scale

RoundUp8(n) == ((n + 7) \div 8) * 8

\* C7 as stated: the capacity of a filter from with_false_positive_bound is
\* ceil(n * bits_per_element) rounded up to the next multiple of 8.
C7_CapacityByteAligned ==
    (phase = "live" /\ built.op = "with_false_positive_bound") =>
        size_in_bits = RoundUp8(ExactSize(built.p, built.n))

\* C7 amended: the capacity is ceil(n * bits_per_element) itself; only the
\* allocated bytes are rounded up, to the next multiple of 8 bits.
C7_CapacityUnaligned ==
    (phase = "live" /\ built.op = "with_false_positive_bound") =>
        /\ size_in_bits = ExactSize(built.p, built.n)
        /\ 8 * Len(array) = RoundUp8(ExactSize(built.p, built.n))

C7_Witness ==
    /\ phase = "live" /\ built.op = "with_false_positive_bound"
    /\ size_in_bits > 8 /\ size_in_bits % 8 # 0
    /\ 8 * Len(array) > size_in_bits

\* C8 as stated: every filter from the public constructors has
\* num_hash_functions >= 1.
C8_AtLeastOneHash ==
    phase = "live" => num_hash_functions >= 1

\* C8 amended: new(size, k) keeps the k it is given, with_false_positive_bound
\* with 0 < p < 1 yields num_hash_functions >= 1, and no later call changes it.
C8_HashCountFromConstructor ==
    phase # "start" =>
        /\ built.op = "new" => num_hash_functions = built.k
        /\ built.op = "with_false_positive_bound" => num_hash_functions >= 1

C8_Witness ==
    /\ phase = "live" /\ built.op = "with_false_positive_bound" /\ built.p = "0.75"
    /\ num_hash_functions = 1 /\ last.op = "maybe_contains" /\ inserted # {}

\* the digests the current filter can meet, and the sampled ones
DigestsInUse ==
    Digests \cup {Hasher(i, v) : i \in 0..(num_hash_functions - 1), v \in Values}

\* C9: on a filter of capacity >= 1 every digest maps to an index in
\* 0..capacity - 1, inside the allocated bytes and never on a padding bit, and
\* neither insert nor maybe_contains panics.
C9_IndexInRange ==
    (phase # "start" /\ size_in_bits >= 1) =>
        /\ phase = "live"
        /\ \A d \in DigestsInUse :
              LET r == bit_index_from_u64(self_bit_array, d, overflow_checks)
              IN  /\ ~r.panic
                  /\ IsSmall(r.value)
                  /\ BitsToNat(r.value) <= size_in_bits - 1
                  /\ BitsToNat(r.value) \div 8 < Len(array)

C9_Witness ==
    /\ phase = "live" /\ size_in_bits % 8 # 0 /\ num_hash_functions >= 2
    /\ Cardinality(inserted) = 3 /\ last.op = "maybe_contains"
    /\ \E v \in Values : IndexOf(Hasher(0, v)) = size_in_bits - 1

\* C10: on a bit array of capacity 0 set_bit_from_u64 and get_bit_from_u64 panic
\* for every digest; so insert and maybe_contains panic when
\* num_hash_functions >= 1, and return with the (empty) array untouched when it
\* is 0.
C10_ZeroCapacityFails ==
    (phase # "start" /\ size_in_bits = 0) =>
        /\ array = << >>
        /\ \A d \in DigestsInUse :
              /\ set_bit_from_u64(self_bit_array, d, overflow_checks) = Panic
              /\ get_bit_from_u64(self_bit_array, d, overflow_checks) = Panic
        /\ last.op \in {"insert", "maybe_contains"} =>
              phase = IF num_hash_functions >= 1 THEN "panicked" ELSE "live"
        /\ num_hash_functions >= 1 => inserted = {}

C10_Witness ==
    /\ phase = "panicked" /\ size_in_bits = 0 /\ num_hash_functions >= 1
    /\ ~overflow_checks /\ last.op = "insert"

====
